---- MODULE Spec2Model ----
(***************************************************************************)
(* A model of the OpenSEO crawl job (backend/tasks/crawler.py), of the     *)
(* page analysis it runs per URL (crawl_page) and of the link-graph        *)
(* analysis it runs after the traversal                                    *)
(* (backend/utils/internal_linking_analyzer.py).                           *)
(*                                                                         *)
(*   Spec      the Celery task crawl_website: attempts, the traversal      *)
(*             loop, the per-page step, the retry policy                   *)
(*   SpecLink  analyze_internal_linking / calculate_click_depths as a      *)
(*             function of arbitrary page records                          *)
(*   SpecStats the same analysis on records and links in any order, and on *)
(*             long chains of pages, run twice on the same input           *)
(*   SpecPage  one call of crawl_page on any page                          *)
(*   SpecSec   one call of analyze_security_headers                        *)
(*   SpecAcc   one call of analyze_accessibility                           *)
(*   SpecLive  the task on a worker that keeps running (weak fairness)     *)
(***************************************************************************)
EXTENDS Integers, Sequences, FiniteSets, TLC

\* ------------------------------------------------------------------ bounds

\* largest max_pages a request is drawn with (the smallest is -1)
MaxBudget == 3

\* most <a href> elements on one fetched page
MaxAnchors == 2

\* largest max_pages drawn together with a root URL that carries a fragment
MaxFragBudget == 2

\* most page records handed to analyze_internal_linking
MaxRecords == 3

\* most internal links in one page record handed to it
MaxOut == 2

\* most page records, and most links in one of them, when the records and
\* their links are handed to analyze_internal_linking in any order
MaxStatRecords == 2

MaxStatLinks == 2

\* most page records of a site whose pages form one long chain
MaxWide == 11

\* most <h1> elements on a page handed to one call of crawl_page
MaxH1 == 3

\* most <img> elements without a text alternative, most form inputs
\* without a label, most links with a non-descriptive text and most
\* headings on a page handed to analyze_accessibility
MaxImages == 7

MaxInputs == 2

MaxVagueLinks == 1

MaxHeadings == 2

\* ------------------------------------------------------ program constants

\* @celery_app.task(bind=True, max_retries=3)
max_retries == 3

\* self.retry(countdown=60, exc=e)
RetryCountdown == 60

\* ------------------------------------------------------------------- URLs

\* A URL as urllib.parse.urlparse splits it.
Url(s, n, p, f) == [scheme |-> s, netloc |-> n, path |-> p, frag |-> f]

Host == "ex.com"

\* urllib.parse.urldefrag: the URL without its fragment.
urldefrag(u) == [u EXCEPT !.frag = ""]

\* urllib.parse.urljoin(base, href) for the href shapes of Anchors: an href
\* with a scheme stands alone, a fragment-only href keeps the base's path,
\* an absolute-path href replaces path and fragment.
urljoin(base, h) ==
    IF h.scheme # "" THEN h
    ELSE IF h.path = "" THEN [base EXCEPT !.frag = h.frag]
    ELSE [base EXCEPT !.path = h.path, !.frag = h.frag]

\* The requests: CrawlRequest.url is any HttpUrl (a fragment included) and
\* max_pages is an unconstrained int.
PlainRoot == Url("https", Host, "/", "")

FragRoot == Url("https", Host, "/", "f")

Requests ==
    { [url |-> PlainRoot, max_pages |-> m] : m \in -1 .. MaxBudget }
      \cup { [url |-> FragRoot, max_pages |-> m] : m \in 1 .. MaxFragBudget }

\* The href values a fetched page may carry.
Anchors ==
    { Url("", "", "/", ""), Url("", "", "/a", ""), Url("", "", "/a", "f"),
      Url("", "", "/b", ""), Url("", "", "", "f"),
      Url("https", "other.com", "/", ""), Url("mailto", "", "x", "") }

AnchorSets == {A \in SUBSET Anchors : Cardinality(A) <= MaxAnchors}

\* The points of crawl_page at which an exception may be raised: page.goto
\* (timeout, navigation error), page.content / BeautifulSoup, and the
\* analyzers that run after the heading checks.
FailPoints == {"none", "goto", "content", "analysis"}

\* The site under crawl answers every path with a fixed status and a fixed
\* number of <h1> elements (one page of each kind the heading and status
\* checks tell apart); its links and its failures vary from fetch to fetch.
SiteStatus(url) == IF url.path = "/a" THEN 404 ELSE 200

SiteH1(url) == IF url.path = "/a" THEN 0 ELSE IF url.path = "/b" THEN 2 ELSE 1

\* What the browser and the site answer for one URL: the page with some
\* anchors, or an exception at one of the fail points (the anchors are then
\* never read).  A URL that is no http(s) URL cannot be navigated to:
\* page.goto raises.
PageInput(url, A, f) ==
    [status |-> SiteStatus(url), h1_count |-> SiteH1(url), anchors |-> A,
     fail |-> f]

PageInputs(url) ==
    IF url.scheme = "https"
    THEN { PageInput(url, A, "none") : A \in AnchorSets }
           \cup { PageInput(url, {}, f) : f \in FailPoints \ {"none"} }
    ELSE { PageInput(url, {}, "goto") }

\* ------------------------------------------------------------- crawl_page

PageIssue(url, type, sev) == [url |-> url, issue_type |-> type, severity |-> sev]

\* if status_code >= 400: issues.append(http_error)
HttpIssues(url, in) ==
    IF in.status >= 400 THEN <<PageIssue(url, "http_error", "error")>> ELSE <<>>

\* Mutant of H1Issues: two separate tests, the second one h1_count != 1.
H1IssuesNoElif(url, in) ==
    (IF in.h1_count = 0 THEN <<PageIssue(url, "missing_h1", "error")>> ELSE <<>>)
      \o (IF in.h1_count # 1 THEN <<PageIssue(url, "multiple_h1", "warning")>>
          ELSE <<>>)

\* if not h1: missing_h1 / elif h1_count > 1: multiple_h1
H1Issues(url, in) ==
    IF in.h1_count = 0 THEN <<PageIssue(url, "missing_h1", "error")>>
    ELSE IF in.h1_count > 1 THEN <<PageIssue(url, "multiple_h1", "warning")>>
    ELSE <<>>

\* The link loop of crawl_page: every href is joined to the page URL and
\* defragmented; it is internal when its netloc is the base domain or empty.
IsInternal(full_url, base_domain) ==
    full_url.netloc = base_domain \/ full_url.netloc = ""

InternalLinks(url, base_domain, anchors) ==
    { l \in { urldefrag(urljoin(url, h)) : h \in anchors } :
        IsInternal(l, base_domain) }

\* The issues already appended to the local list when the exception of
\* fail point f is raised.
IssuesBefore(url, in) ==
    CASE in.fail = "goto" -> <<>>
      [] in.fail = "content" -> HttpIssues(url, in)
      [] OTHER -> HttpIssues(url, in) \o H1Issues(url, in)

\* Mutant of FailedPage: the record of a failed fetch without its URL.
FailedPageBlank(url) ==
    [url |-> Url("", "", "", ""), status_code |-> 0, h1_count |-> 0,
     internal_links |-> {}, readability |-> FALSE]

\* PageData(url=url, status_code=0, crawl_time=...): every other field at
\* its default (h1_count 0, internal_links [], readability None).
FailedPage(url) ==
    [url |-> url, status_code |-> 0, h1_count |-> 0, internal_links |-> {},
     readability |-> FALSE]

\* crawl_page: (page_data, list(set(internal_links)), issues), or on any
\* exception (PageData status 0, [], issues + [crawl_error]).
crawl_page(url, base_domain, in) ==
    IF in.fail = "none"
    THEN [page |-> [url |-> url, status_code |-> in.status,
                    h1_count |-> in.h1_count,
                    internal_links |-> InternalLinks(url, base_domain, in.anchors),
                    readability |-> TRUE],
          links |-> InternalLinks(url, base_domain, in.anchors),
          issues |-> HttpIssues(url, in) \o H1Issues(url, in)]
    ELSE [page |-> FailedPage(url),
          links |-> {},
          issues |-> IssuesBefore(url, in)
                       \o <<PageIssue(url, "crawl_error", "error")>>]

\* ---------------------------------------------------------------- helpers

Range(s) == {s[i] : i \in 1 .. Len(s)}

\* The orders in which iterating a Python set may yield its elements.
Orders(S) ==
    { s \in [1 .. Cardinality(S) -> S] :
        \A i, j \in 1 .. Cardinality(S) : i # j => s[i] # s[j] }

NoUrl == Url("", "", "", "")

\* ------------------------------------------------- the crawl_website task

VARIABLES
    base_url,      \* argument of the task
    max_pages,     \* argument of the task
    state,         \* the task's state in the Celery result backend
    retries,       \* self.request.retries
    error,         \* the exception the backend holds (RETRY, FAILURE)
    countdowns,    \* the delay of every retry scheduled so far
    result,        \* the task's return value (SUCCESS)
    meta,          \* the meta of the last update_state(state='PROGRESS')
    pc,            \* where the worker stands in the task
    visited,       \* _crawl: visited
    to_visit,      \* _crawl: to_visit
    pages,         \* _crawl: pages
    all_issues,    \* _crawl: all_issues
    current_url,   \* _crawl: current_url
    enqueued       \* history: every URL put on to_visit in this attempt

crawl_vars ==
    <<base_url, max_pages, state, retries, error, countdowns, result, meta,
      pc, visited, to_visit, pages, all_issues, current_url, enqueued>>

\* The state of analyze_internal_linking.
VARIABLES
    pages_data,       \* argument: the page records (url, internal_links)
    al_base_url,      \* argument: base_url
    url_to_links,     \* URL -> set of URLs it links to
    links_keys,       \* the keys of url_to_links in insertion order
    url_to_incoming,  \* URL -> set of URLs linking to it (a defaultdict)
    incoming_keys,    \* the keys of url_to_incoming in insertion order
    all_urls,         \* every URL crawled or linked to
    depths,           \* calculate_click_depths: depths
    queue,            \* calculate_click_depths: queue
    bfs_visited,      \* calculate_click_depths: visited
    al_pc,            \* where the analysis stands
    stats,            \* the InternalLinkingStats returned
    prev_stats        \* the InternalLinkingStats an earlier call returned

link_vars ==
    <<pages_data, al_base_url, url_to_links, links_keys, url_to_incoming,
      incoming_keys, all_urls, depths, queue, bfs_visited, al_pc, stats,
      prev_stats>>

\* One call of crawl_page.
VARIABLES
    pg_url,      \* argument: url
    pg_in,       \* what the browser and the site answer for it
    pg_out,      \* the tuple returned
    pg_pc        \* where the call stands

page_vars == <<pg_url, pg_in, pg_out, pg_pc>>

\* One call of analyze_security_headers.
VARIABLES
    sec_headers,   \* argument: headers, the dict as a list of (name, value)
    sec_out,       \* the SecurityHeaders returned
    sec_pc         \* where the call stands

sec_vars == <<sec_headers, sec_out, sec_pc>>

\* One call of analyze_accessibility.
VARIABLES
    acc_in,      \* argument: soup, by what the checks find in it
    acc_out,     \* the AccessibilityScore returned
    acc_pc       \* where the call stands

acc_vars == <<acc_in, acc_out, acc_pc>>

\* The variables that the steps of the crawl task, and those of the link
\* analysis, leave alone.
beside_crawl == <<link_vars, page_vars, sec_vars, acc_vars>>

beside_link == <<crawl_vars, page_vars, sec_vars, acc_vars>>

NoMeta == [current |-> 0, total |-> 0, current_url |-> NoUrl]

NoResult == [status |-> "none"]

\* crawl_website.delay(url, max_pages, check_cwv): the task is queued and
\* the API answers "pending".
CrawlInit ==
    /\ \E r \in Requests : base_url = r.url /\ max_pages = r.max_pages
    /\ state = "PENDING"
    /\ retries = 0
    /\ error = "none"
    /\ countdowns = <<>>
    /\ result = NoResult
    /\ meta = NoMeta
    /\ pc = "queued"
    /\ visited = {}
    /\ to_visit = <<>>
    /\ pages = <<>>
    /\ all_issues = <<>>
    /\ current_url = NoUrl
    /\ enqueued = {}

\* Mutants of RetryAllowed: one retry too many; no retry at all.
RetryAllowedOffByOne(r) == r <= max_retries

RetryNever(r) == FALSE

\* Celery's Task.retry under max_retries: reschedule while
\* request.retries < max_retries, else raise exc (the task fails).
RetryAllowed(r) == r < max_retries

\* except Exception as e: self.retry(countdown=60, exc=e)
Retry(e) ==
    /\ error' = e
    /\ IF RetryAllowed(retries)
       THEN /\ state' = "RETRY"
            /\ retries' = retries + 1
            /\ countdowns' = Append(countdowns, RetryCountdown)
            /\ pc' = "queued"
       ELSE /\ state' = "FAILURE"
            /\ pc' = "done"
            /\ UNCHANGED <<retries, countdowns>>
    /\ UNCHANGED <<base_url, max_pages, result>>

\* Mutant of StartAttempt: the attempt goes on with the visited set, the
\* frontier and the accumulators that the attempt before it left.
StartAttemptResume ==
    /\ pc = "queued"
    /\ state' = "STARTED"
    /\ error' = "none"
    /\ meta' = NoMeta
    /\ to_visit' = IF to_visit = <<>> THEN <<base_url>> ELSE to_visit
    /\ enqueued' = enqueued \cup {base_url}
    /\ pc' = "launch"
    /\ UNCHANGED <<base_url, max_pages, retries, countdowns, result, visited,
                   pages, all_issues, current_url>>
    /\ UNCHANGED beside_crawl

\* A worker takes the task (task_track_started: the backend now holds
\* STARTED in place of the exception of a retried attempt) and _crawl sets
\* up its locals; the sitemap and robots.txt fetches swallow their own
\* errors.
StartAttempt ==
    /\ pc = "queued"
    /\ state' = "STARTED"
    /\ error' = "none"
    /\ meta' = NoMeta
    /\ visited' = {}
    /\ to_visit' = <<base_url>>
    /\ pages' = <<>>
    /\ all_issues' = <<>>
    /\ current_url' = NoUrl
    /\ enqueued' = {base_url}
    /\ pc' = "launch"
    /\ UNCHANGED <<base_url, max_pages, retries, countdowns, result>>
    /\ UNCHANGED beside_crawl

\* async_playwright(), chromium.launch, new_page succeed.
LaunchOk ==
    /\ pc = "launch"
    /\ pc' = "loop"
    /\ UNCHANGED <<base_url, max_pages, state, retries, error, countdowns,
                   result, meta, visited, to_visit, pages, all_issues,
                   current_url, enqueued>>
    /\ UNCHANGED beside_crawl

\* ... or raise: the exception leaves _crawl and the task retries.
LaunchFail ==
    /\ pc = "launch"
    /\ Retry("LaunchError")
    /\ UNCHANGED <<meta, visited, to_visit, pages, all_issues, current_url,
                   enqueued>>
    /\ UNCHANGED beside_crawl

\* Mutants of LoopGuard: one page too many; one page too few; no budget.
LoopGuardLe(q, v, m) == q # <<>> /\ Cardinality(v) <= m

LoopGuardUnbounded(q, v, m) == q # <<>>

LoopGuardEarly(q, v, m) == q # <<>> /\ Cardinality(v) + 1 < m

\* while to_visit and len(visited) < max_pages
LoopGuard(q, v, m) == q # <<>> /\ Cardinality(v) < m

\* Mutant of PopUrl: to_visit.pop(), the last URL instead of the first.
PopUrlLast(q) == [url |-> q[Len(q)], rest |-> SubSeq(q, 1, Len(q) - 1)]

\* to_visit.pop(0): the URL taken and the list left
PopUrl(q) == [url |-> Head(q), rest |-> Tail(q)]

\* Mutant of ProgressMeta: the count of the pages done before this one.
ProgressMetaPagesDone(v, m, url) ==
    [current |-> Cardinality(v) - 1, total |-> m, current_url |-> url]

\* meta={'current': len(visited), 'total': max_pages, 'current_url':
\* current_url}, v being visited after visited.add(current_url)
ProgressMeta(v, m, url) ==
    [current |-> Cardinality(v), total |-> m, current_url |-> url]

\* One pass over the head of the loop: pop, skip a visited URL, mark
\* visited and report progress; or leave the loop and close the browser.
LoopHead ==
    /\ pc = "loop"
    /\ IF LoopGuard(to_visit, visited, max_pages)
       THEN /\ current_url' = PopUrl(to_visit).url
            /\ to_visit' = PopUrl(to_visit).rest
            /\ IF PopUrl(to_visit).url \in visited
               THEN UNCHANGED <<visited, state, meta, pc>>
               ELSE /\ visited' = visited \cup {PopUrl(to_visit).url}
                    /\ state' = "PROGRESS"
                    /\ meta' = ProgressMeta(visited', max_pages,
                                            PopUrl(to_visit).url)
                    /\ pc' = "fetch"
       ELSE /\ pc' = "analyze"
            /\ UNCHANGED <<current_url, to_visit, visited, state, meta>>
    /\ UNCHANGED <<base_url, max_pages, retries, error, countdowns, result,
                   pages, all_issues, enqueued>>
    /\ UNCHANGED beside_crawl

\* The same pass when update_state raises (the result backend is down): the
\* exception leaves the loop through except/raise and the task retries.
LoopHeadFail ==
    /\ pc = "loop"
    /\ LoopGuard(to_visit, visited, max_pages)
    /\ PopUrl(to_visit).url \notin visited
    /\ current_url' = PopUrl(to_visit).url
    /\ to_visit' = PopUrl(to_visit).rest
    /\ visited' = visited \cup {PopUrl(to_visit).url}
    /\ Retry("BackendError")
    /\ UNCHANGED <<meta, pages, all_issues, enqueued>>
    /\ UNCHANGED beside_crawl

\* Mutants of Enqueue: without the test on visited; without the test on
\* to_visit; without the last link of the list.
RECURSIVE EnqueueUnlessPending(_, _, _)
EnqueueUnlessPending(q, v, new_links) ==
    IF new_links = <<>> THEN q
    ELSE EnqueueUnlessPending(IF Head(new_links) \notin Range(q)
                              THEN Append(q, Head(new_links)) ELSE q,
                              v, Tail(new_links))

RECURSIVE EnqueueUnlessVisited(_, _, _)
EnqueueUnlessVisited(q, v, new_links) ==
    IF new_links = <<>> THEN q
    ELSE EnqueueUnlessVisited(IF Head(new_links) \notin v
                              THEN Append(q, Head(new_links)) ELSE q,
                              v, Tail(new_links))

RECURSIVE EnqueueAllButLast(_, _, _)
EnqueueAllButLast(q, v, new_links) ==
    IF Len(new_links) <= 1 THEN q
    ELSE EnqueueAllButLast(IF Head(new_links) \notin v
                                /\ Head(new_links) \notin Range(q)
                           THEN Append(q, Head(new_links)) ELSE q,
                           v, Tail(new_links))

\* for link in new_links: if link not in visited and link not in to_visit:
\* to_visit.append(link)
RECURSIVE Enqueue(_, _, _)
Enqueue(q, v, new_links) ==
    IF new_links = <<>> THEN q
    ELSE Enqueue(IF Head(new_links) \notin v /\ Head(new_links) \notin Range(q)
                 THEN Append(q, Head(new_links)) ELSE q,
                 v, Tail(new_links))

\* Mutant of ExtendIssues: the new issues in front of the list.
ExtendIssuesInFront(all, issues) == issues \o all

\* all_issues.extend(issues)
ExtendIssues(all, issues) == all \o issues

\* crawl_page on the current URL, then pages.append, all_issues.extend and
\* the enqueue loop.
CrawlStep ==
    /\ pc = "fetch"
    /\ \E r \in { crawl_page(current_url, base_url.netloc, in) :
                    in \in PageInputs(current_url) } :
         /\ pages' = Append(pages, r.page)
         /\ all_issues' = ExtendIssues(all_issues, r.issues)
         /\ \E new_links \in Orders(r.links) :
              /\ to_visit' = Enqueue(to_visit, visited, new_links)
              /\ enqueued' = enqueued \cup Range(Enqueue(to_visit, visited, new_links))
    /\ pc' = "loop"
    /\ UNCHANGED <<base_url, max_pages, state, retries, error, countdowns,
                   result, meta, visited, current_url>>
    /\ UNCHANGED beside_crawl

\* accessibility_summary: sum(...) / len([p for p in pages if p.readability])
\* if pages else 0 -- the division raises when pages is non-empty and no
\* page has a readability report.
AvgScoreRaises(ps) ==
    ps # <<>> /\ \A i \in 1 .. Len(ps) : ~ps[i].readability

\* What fetch_sitemap returned before the loop: None, a sitemap whose <url>
\* entries carry their <loc> text, or a sitemap without namespace with an
\* empty <loc/>.
SitemapContents == {"none", "urls", "empty_loc"}

\* What fetch_robots_txt returned: None, or a robots.txt that disallows
\* everything.
RobotsContents == {"none", "disallow_all"}

\* parse_sitemap builds SitemapUrl(loc=loc_elem.text): for an empty <loc/>
\* the text is None, loc: str rejects it, and the ValidationError passes
\* the `except ET.ParseError` of parse_sitemap.
ParseSitemapRaises(content) == content = "empty_loc"

\* The analysis after the loop succeeds and _crawl returns the CrawlResult;
\* the sitemap and robots.txt fetched before the loop are read only here.
Finish ==
    /\ pc = "analyze"
    /\ ~AvgScoreRaises(pages)
    /\ state' = "SUCCESS"
    /\ \E sitemap_content \in SitemapContents, robots_content \in RobotsContents :
         /\ ~ParseSitemapRaises(sitemap_content)
         /\ result' = [status |-> "completed", pages_crawled |-> Len(pages),
                       max_pages |-> max_pages, pages |-> pages,
                       issues |-> all_issues,
                       sitemap_analysis |-> sitemap_content = "urls",
                       has_robots_txt |-> robots_content # "none"]
    /\ pc' = "done"
    /\ UNCHANGED <<base_url, max_pages, retries, error, countdowns, meta,
                   visited, to_visit, pages, all_issues, current_url, enqueued>>
    /\ UNCHANGED beside_crawl

\* The analysis after the loop raises, in parse_sitemap or in the
\* accessibility summary: except/raise, and the task retries.
FinishRaise ==
    /\ pc = "analyze"
    /\ \E sitemap_content \in SitemapContents :
         IF ParseSitemapRaises(sitemap_content)
         THEN Retry("ValidationError")
         ELSE AvgScoreRaises(pages) /\ Retry("ZeroDivisionError")
    /\ UNCHANGED <<meta, visited, to_visit, pages, all_issues, current_url,
                   enqueued>>
    /\ UNCHANGED beside_crawl

\* ---------------------------------------------- analyze_internal_linking

\* The URLs of the site whose records are analysed.
LinkNodes ==
    <<PlainRoot, Url("https", Host, "/a", ""), Url("https", Host, "/b", ""),
      Url("https", Host, "/c", "")>>

LinkSets == {L \in SUBSET Range(LinkNodes) : Cardinality(L) <= MaxOut}

\* {"url": p.url, "internal_links": p.internal_links}: L is a list.
PageRecord(u, L) == [url |-> u, internal_links |-> L]

\* The URLs of S as a list, in the order of the sequence nodes.
ListOf(nodes, S) == SelectSeq(nodes, LAMBDA u : u \in S)

\* The records of the crawled set C, in the order of LinkNodes (the crawl
\* never records a URL twice).
RECURSIVE RecordsOf(_, _, _)
RecordsOf(i, C, links) ==
    IF i > Len(LinkNodes) THEN <<>>
    ELSE (IF LinkNodes[i] \in C
          THEN <<PageRecord(LinkNodes[i], ListOf(LinkNodes, links[LinkNodes[i]]))>>
          ELSE <<>>)
           \o RecordsOf(i + 1, C, links)

NoStats ==
    [total_internal_links |-> 0, unique_internal_links |-> 0,
     orphan_pages |-> {}, pages_with_few_links |-> <<>>,
     most_linked_pages |-> <<>>, avg_links_per_page |-> 0,
     max_click_depth |-> 0, done |-> FALSE]

LinkInit ==
    /\ \E C \in SUBSET Range(LinkNodes) :
         /\ Cardinality(C) <= MaxRecords
         /\ \E links \in [C -> LinkSets] : pages_data = RecordsOf(1, C, links)
    /\ al_base_url = PlainRoot
    /\ url_to_links = <<>>
    /\ links_keys = <<>>
    /\ url_to_incoming = <<>>
    /\ incoming_keys = <<>>
    /\ all_urls = {}
    /\ depths = <<>>
    /\ queue = <<>>
    /\ bfs_visited = {}
    /\ al_pc = "input"
    /\ stats = NoStats
    /\ prev_stats = NoStats

\* url_to_links[url] = set(internal_links): the last record of a URL wins.
LinksOfRecords(pd) ==
    [u \in {pd[i].url : i \in 1 .. Len(pd)} |->
        LET last == CHOOSE i \in 1 .. Len(pd) :
                       /\ pd[i].url = u
                       /\ \A j \in 1 .. Len(pd) : pd[j].url = u => j <= i
        IN Range(pd[last].internal_links)]

\* url_to_incoming[link].add(url), for every link of every record.
IncomingOfRecords(pd) ==
    [l \in UNION {Range(pd[i].internal_links) : i \in 1 .. Len(pd)} |->
        {pd[i].url :
           i \in {j \in 1 .. Len(pd) : l \in Range(pd[j].internal_links)}}]

\* all_urls.add(url); all_urls.add(link)
AllUrlsOfRecords(pd) ==
    {pd[i].url : i \in 1 .. Len(pd)}
      \cup UNION {Range(pd[i].internal_links) : i \in 1 .. Len(pd)}

\* A dict keeps its keys in the order of their first insertion: the keys
\* it has, then the first occurrences in new of the keys it has not.
AddKeys(keys, new) ==
    LET first == { i \in 1 .. Len(new) :
                     /\ new[i] \notin Range(keys)
                     /\ \A j \in 1 .. i - 1 : new[j] # new[i] }
    IN keys \o [n \in 1 .. Cardinality(first) |->
                  new[CHOOSE i \in first :
                        Cardinality({j \in first : j < i}) = n - 1]]

\* The keys of url_to_links: the record URLs as the loop meets them.
LinksKeysOfRecords(pd) == AddKeys(<<>>, [i \in 1 .. Len(pd) |-> pd[i].url])

\* The links of the records as the loop meets them: record after record,
\* each record's list in its order.
RECURSIVE LinksInOrder(_)
LinksInOrder(pd) ==
    IF pd = <<>> THEN <<>>
    ELSE Head(pd).internal_links \o LinksInOrder(Tail(pd))

\* The keys of url_to_incoming.
IncomingKeysOfRecords(pd) == AddKeys(<<>>, LinksInOrder(pd))

\* The loop over pages_data (lines 22-37), then the first lines of
\* calculate_click_depths: depths = {base_url: 0}, queue = [base_url],
\* visited = {base_url}.
BuildGraph ==
    /\ al_pc = "input"
    /\ url_to_links' = LinksOfRecords(pages_data)
    /\ links_keys' = LinksKeysOfRecords(pages_data)
    /\ url_to_incoming' = IncomingOfRecords(pages_data)
    /\ incoming_keys' = IncomingKeysOfRecords(pages_data)
    /\ all_urls' = AllUrlsOfRecords(pages_data)
    /\ depths' = (al_base_url :> 0)
    /\ queue' = <<al_base_url>>
    /\ bfs_visited' = {al_base_url}
    /\ al_pc' = "bfs"
    /\ UNCHANGED <<pages_data, al_base_url, stats, prev_stats>>
    /\ UNCHANGED beside_link

\* url_to_links.get(current, set())
Outgoing(utl, current) == IF current \in DOMAIN utl THEN utl[current] ELSE {}

\* queue.pop(0): the URL taken and the list left
BfsPop(q) == [url |-> Head(q), rest |-> Tail(q)]

\* Mutant of ChildDepth: the child gets its parent's depth.
ChildDepthSame(current_depth) == current_depth

\* depths[url] = current_depth + 1
ChildDepth(current_depth) == current_depth + 1

\* for url in outgoing: if url not in visited and url in all_urls: ...
\* over the URLs of out in the order given; the state is (visited, depths,
\* queue).
RECURSIVE BfsVisit(_, _, _, _)
BfsVisit(out, st, current_depth, urls) ==
    IF out = <<>> THEN st
    ELSE BfsVisit(Tail(out),
                  IF Head(out) \notin st.visited /\ Head(out) \in urls
                  THEN [visited |-> st.visited \cup {Head(out)},
                        depths |-> (Head(out) :> ChildDepth(current_depth))
                                     @@ st.depths,
                        queue |-> Append(st.queue, Head(out))]
                  ELSE st,
                  current_depth, urls)

\* One pass of the while loop of calculate_click_depths.
BfsStep ==
    /\ al_pc = "bfs"
    /\ queue # <<>>
    /\ \E out \in Orders(Outgoing(url_to_links, BfsPop(queue).url)) :
         LET st == BfsVisit(out,
                            [visited |-> bfs_visited, depths |-> depths,
                             queue |-> BfsPop(queue).rest],
                            depths[BfsPop(queue).url], all_urls)
         IN /\ bfs_visited' = st.visited
            /\ depths' = st.depths
            /\ queue' = st.queue
    /\ UNCHANGED <<pages_data, al_base_url, url_to_links, links_keys,
                   url_to_incoming, incoming_keys, all_urls, al_pc, stats,
                   prev_stats>>
    /\ UNCHANGED beside_link

\* for url in all_urls: if url not in depths: depths[url] = -1
FillUnreached(dep, urls) ==
    [u \in DOMAIN dep \cup urls |-> IF u \in DOMAIN dep THEN dep[u] ELSE -1]

\* len(url_to_incoming[url]) on the defaultdict
IncomingCount(inc, url) ==
    IF url \in DOMAIN inc THEN Cardinality(inc[url]) ELSE 0

\* Mutant of OrphanPages: the root is not excluded.
OrphanPagesWithRoot(urls, utl, inc, base) ==
    { url \in urls : url \in DOMAIN utl /\ IncomingCount(inc, url) = 0 }

\* orphan_pages = [url for url in all_urls if url in url_to_links and
\* len(url_to_incoming[url]) == 0 and url != base_url]
OrphanPages(urls, utl, inc, base) ==
    { url \in urls :
        url \in DOMAIN utl /\ IncomingCount(inc, url) = 0 /\ url # base }

\* The URLs that the orphan test inserts into url_to_incoming: it reads
\* url_to_incoming[url] once `url in url_to_links` holds, and the read of a
\* missing key of a defaultdict inserts the key.
IncomingRead(urls, utl, inc) ==
    { u \in urls : u \in DOMAIN utl /\ u \notin DOMAIN inc }

IncomingAfterRead(inc, read) ==
    [u \in DOMAIN inc \cup read |-> IF u \in DOMAIN inc THEN inc[u] ELSE {}]

\* if len(links) < 3
MinLinks == 3

\* pages_with_few_links[:10] and incoming_counts[:10]
ListLimit == 10

\* seq[:n]
Take(seq, n) == SubSeq(seq, 1, IF Len(seq) < n THEN Len(seq) ELSE n)

\* for url, links in url_to_links.items(): if len(links) < 3: append
FewLinks(keys, utl) ==
    LET few == SelectSeq(keys, LAMBDA u : Cardinality(utl[u]) < MinLinks)
    IN [i \in 1 .. Len(few) |->
          [url |-> few[i], link_count |-> Cardinality(utl[few[i]])]]

\* [(url, len(sources)) for url, sources in url_to_incoming.items()]
IncomingCounts(keys, inc) ==
    [i \in 1 .. Len(keys) |->
        [url |-> keys[i], incoming_links |-> Cardinality(inc[keys[i]])]]

\* Where list.sort(key=count, reverse=True) puts x among the entries sorted
\* before it: behind every entry whose count is not smaller (the sort is
\* stable, equal counts keep the order of the list).
RECURSIVE InsertByCount(_, _)
InsertByCount(sorted, x) ==
    IF sorted = <<>> THEN <<x>>
    ELSE IF Head(sorted).incoming_links >= x.incoming_links
         THEN <<Head(sorted)>> \o InsertByCount(Tail(sorted), x)
         ELSE <<x>> \o sorted

\* incoming_counts.sort(key=lambda x: x[1], reverse=True)
RECURSIVE SortByCount(_)
SortByCount(counts) ==
    IF counts = <<>> THEN <<>>
    ELSE InsertByCount(SortByCount(SubSeq(counts, 1, Len(counts) - 1)),
                       counts[Len(counts)])

\* sum(len(links) for links in url_to_links.values())
RECURSIVE TotalLinks(_, _)
TotalLinks(keys, utl) ==
    IF keys = <<>> THEN 0
    ELSE Cardinality(utl[Head(keys)]) + TotalLinks(Tail(keys), utl)

\* len(set(link for links in url_to_links.values() for link in links))
UniqueLinks(utl) == Cardinality(UNION {utl[u] : u \in DOMAIN utl})

\* round(num / den, 1), counted in tenths.  Python rounds the float to the
\* nearest tenth; the quotient is halfway between two tenths only if it is
\* an odd multiple of 1/20, which for den < 20 is an odd multiple of 1/4:
\* the float is then exact and the tie goes to the even tenth.
RoundTenths(num, den) ==
    LET q == (10 * num) \div den
        r == (10 * num) % den
    IN  IF 2 * r < den THEN q
        ELSE IF 2 * r > den THEN q + 1
        ELSE IF q % 2 = 0 THEN q ELSE q + 1

\* Mutant of AvgLinks: the pages with at least one link as the denominator.
AvgLinksOfLinkingPages(keys, utl) ==
    IF {u \in Range(keys) : utl[u] # {}} = {} THEN 0
    ELSE RoundTenths(TotalLinks(keys, utl),
                     Cardinality({u \in Range(keys) : utl[u] # {}}))

\* avg_links = total_internal / len(url_to_links) if url_to_links else 0,
\* returned as round(avg_links, 1): the number of tenths.
AvgLinks(keys, utl) ==
    IF keys = <<>> THEN 0
    ELSE RoundTenths(TotalLinks(keys, utl), Len(keys))

\* max(click_depths.values())
MaxDepth(dep) == CHOOSE d \in {dep[u] : u \in DOMAIN dep} :
                     \A u \in DOMAIN dep : dep[u] <= d

\* The queue is empty: calculate_click_depths fills in -1 and returns, and
\* analyze_internal_linking builds its result; the orphan test iterates the
\* set all_urls in some order and so meets the keys it inserts in some order.
BfsDone ==
    /\ al_pc = "bfs"
    /\ queue = <<>>
    /\ depths' = FillUnreached(depths, all_urls)
    /\ url_to_incoming' =
         IncomingAfterRead(url_to_incoming,
                           IncomingRead(all_urls, url_to_links, url_to_incoming))
    /\ \E scan \in Orders(IncomingRead(all_urls, url_to_links, url_to_incoming)) :
         incoming_keys' = AddKeys(incoming_keys, scan)
    /\ stats' =
         [total_internal_links |-> TotalLinks(links_keys, url_to_links),
          unique_internal_links |-> UniqueLinks(url_to_links),
          orphan_pages |->
              OrphanPages(all_urls, url_to_links, url_to_incoming, al_base_url),
          pages_with_few_links |->
              Take(FewLinks(links_keys, url_to_links), ListLimit),
          most_linked_pages |->
              Take(SortByCount(IncomingCounts(incoming_keys', url_to_incoming')),
                   ListLimit),
          avg_links_per_page |-> AvgLinks(links_keys, url_to_links),
          max_click_depth |-> MaxDepth(depths'),
          done |-> TRUE]
    /\ al_pc' = "done"
    /\ UNCHANGED <<pages_data, al_base_url, url_to_links, links_keys,
                   all_urls, queue, bfs_visited, prev_stats>>
    /\ UNCHANGED beside_link

NextLink ==
    \/ BuildGraph
    \/ BfsStep
    \/ BfsDone

\* ------------------------- analyze_internal_linking on lists in any order

\* The URLs of a small site.
StatNodes == SubSeq(LinkNodes, 1, 3)

\* internal_links: the lists of distinct URLs, in every order.
LinkLists ==
    UNION { Orders(S) : S \in { T \in SUBSET Range(StatNodes) :
                                  Cardinality(T) <= MaxStatLinks } }

\* pages_data: records of at most n distinct URLs, in every order.
SmallInputs(n) ==
    UNION { { [i \in 1 .. Len(order) |->
                 PageRecord(order[i], lists[order[i]])] :
              order \in Orders(C), lists \in [C -> LinkLists] } :
            C \in { D \in SUBSET Range(StatNodes) : Cardinality(D) <= n } }

\* The URLs of a long chain: the root, then /p01, /p02, ...
WideNode(i) ==
    IF i = 0 THEN PlainRoot
    ELSE Url("https", Host,
             IF i < 10 THEN "/p0" \o ToString(i) ELSE "/p" \o ToString(i), "")

\* The first k pages of the chain, each linking to the next; the first j of
\* them link to the root and to the page after the next as well.
WideRecords(k, j) ==
    [i \in 1 .. k |->
        PageRecord(WideNode(i - 1),
                   IF i <= j
                   THEN <<WideNode(i), PlainRoot, WideNode(i + 1)>>
                   ELSE <<WideNode(i)>>)]

WideInputs == { WideRecords(k, j) : k \in 1 .. MaxWide, j \in 0 .. MaxWide }

StatsInit ==
    /\ pages_data \in SmallInputs(MaxStatRecords) \cup WideInputs
    /\ al_base_url = PlainRoot
    /\ url_to_links = <<>>
    /\ links_keys = <<>>
    /\ url_to_incoming = <<>>
    /\ incoming_keys = <<>>
    /\ all_urls = {}
    /\ depths = <<>>
    /\ queue = <<>>
    /\ bfs_visited = {}
    /\ al_pc = "input"
    /\ stats = NoStats
    /\ prev_stats = NoStats

\* analyze_internal_linking is called once more on the same page records:
\* the result of the first call is kept, every local starts afresh.
Rerun ==
    /\ al_pc = "done"
    /\ prev_stats = NoStats
    /\ prev_stats' = stats
    /\ stats' = NoStats
    /\ url_to_links' = <<>>
    /\ links_keys' = <<>>
    /\ url_to_incoming' = <<>>
    /\ incoming_keys' = <<>>
    /\ all_urls' = {}
    /\ depths' = <<>>
    /\ queue' = <<>>
    /\ bfs_visited' = {}
    /\ al_pc' = "input"
    /\ UNCHANGED <<pages_data, al_base_url>>
    /\ UNCHANGED beside_link

NextStats ==
    \/ BuildGraph
    \/ BfsStep
    \/ BfsDone
    \/ Rerun

\* ------------------------------------------------- one call of crawl_page

\* response.status if response else 0: the statuses a navigation answers
\* with (0: page.goto returned no response).
Statuses == {0, 200, 399, 400, 404}

CallUrls == {PlainRoot, Url("https", Host, "/a", "")}

\* Any page: any status, any number of <h1>, any anchors, an exception at
\* any fail point.
FreePageInputs ==
    [status : Statuses, h1_count : 0 .. MaxH1, anchors : AnchorSets,
     fail : FailPoints]

NoPageOut == [page |-> FailedPage(NoUrl), links |-> {}, issues |-> <<>>]

PageInit ==
    /\ pg_url \in CallUrls
    /\ pg_in \in FreePageInputs
    /\ pg_out = NoPageOut
    /\ pg_pc = "call"

\* page_data, new_links, issues = await crawl_page(page, url, base_domain)
PageCall ==
    /\ pg_pc = "call"
    /\ pg_out' = crawl_page(pg_url, Host, pg_in)
    /\ pg_pc' = "returned"
    /\ UNCHANGED <<pg_url, pg_in>>
    /\ UNCHANGED <<crawl_vars, link_vars, sec_vars, acc_vars>>

NextPage == PageCall

\* ------------------------------------------------ analyze_security_headers

\* One entry of the headers dict.
Header(n, v) == [name |-> n, value |-> v]

\* What dict.get answers for a key the dict does not hold.
NoneValue == "<None>"

\* Mutant of lower: the header names are compared as they are written.
lowerAsWritten(str) == str

\* str.lower() on the names and values that the headers carry.
lower(str) ==
    CASE str = "Content-Security-Policy" -> "content-security-policy"
      [] str = "Strict-Transport-Security" -> "strict-transport-security"
      [] str = "X-Content-Type-Options" -> "x-content-type-options"
      [] str \in {"X-Frame-Options", "X-FRAME-OPTIONS"} -> "x-frame-options"
      [] str = "Referrer-Policy" -> "referrer-policy"
      [] str = "Permissions-Policy" -> "permissions-policy"
      [] str = "Feature-Policy" -> "feature-policy"
      [] str = "NoSniff" -> "nosniff"
      [] OTHER -> str

\* str.upper() on the values that X-Frame-Options carries.
upper(str) ==
    CASE str = "deny" -> "DENY"
      [] str = "SameOrigin" -> "SAMEORIGIN"
      [] OTHER -> str

\* normalized = {k.lower(): v for k, v in headers.items()}: of two names
\* with the same lower-case form the later entry wins.
Normalized(headers) ==
    [k \in {lower(headers[i].name) : i \in 1 .. Len(headers)} |->
        LET last == CHOOSE i \in 1 .. Len(headers) :
                       /\ lower(headers[i].name) = k
                       /\ \A j \in 1 .. Len(headers) :
                            lower(headers[j].name) = k => j <= i
        IN headers[last].value]

\* normalized.get(key)
Get(normalized, key) ==
    IF key \in DOMAIN normalized THEN normalized[key] ELSE NoneValue

\* The truth value of an Optional[str]: None and "" are false.
Truthy(v) == v # NoneValue /\ v # ""

\* a or b
OrElse(a, b) == IF Truthy(a) THEN a ELSE b

\* The names of SECURITY_HEADERS, in the order in which the function tests
\* them.
SecurityHeaderNames ==
    <<"Content-Security-Policy", "Strict-Transport-Security",
      "X-Content-Type-Options", "X-Frame-Options", "Referrer-Policy",
      "Permissions-Policy">>

\* score += ...: what each accepted header adds.
Weight(h) ==
    CASE h = "Content-Security-Policy" -> 20
      [] h = "Strict-Transport-Security" -> 20
      [] h = "X-Content-Type-Options" -> 15
      [] h = "X-Frame-Options" -> 20
      [] h = "Referrer-Policy" -> 10
      [] h = "Permissions-Policy" -> 15

\* The test the function applies to the value it read for header h.
Accepts(h, v) ==
    CASE h = "X-Content-Type-Options" -> Truthy(v) /\ lower(v) = "nosniff"
      [] h = "X-Frame-Options" -> Truthy(v) /\ upper(v) \in {"DENY", "SAMEORIGIN"}
      [] OTHER -> Truthy(v)

\* score and missing over the headers from position i on.
RECURSIVE ScoreFrom(_, _)
ScoreFrom(values, i) ==
    IF i > Len(SecurityHeaderNames) THEN 0
    ELSE (IF Accepts(SecurityHeaderNames[i], values[i])
          THEN Weight(SecurityHeaderNames[i]) ELSE 0)
           + ScoreFrom(values, i + 1)

RECURSIVE MissingFrom(_, _)
MissingFrom(values, i) ==
    IF i > Len(SecurityHeaderNames) THEN <<>>
    ELSE (IF Accepts(SecurityHeaderNames[i], values[i])
          THEN <<>> ELSE <<SecurityHeaderNames[i]>>)
           \o MissingFrom(values, i + 1)

\* analyze_security_headers: the six values read, the score and the missing
\* headers (the recommendations are texts that nothing reads).
analyze_security_headers(headers) ==
    LET normalized == Normalized(headers)
        values ==
            <<Get(normalized, "content-security-policy"),
              Get(normalized, "strict-transport-security"),
              Get(normalized, "x-content-type-options"),
              Get(normalized, "x-frame-options"),
              Get(normalized, "referrer-policy"),
              OrElse(Get(normalized, "permissions-policy"),
                     Get(normalized, "feature-policy"))>>
    IN [values |-> values,
        score |-> ScoreFrom(values, 1),
        missing_headers |-> MissingFrom(values, 1),
        done |-> TRUE]

NoSecurityHeaders ==
    [values |-> <<>>, score |-> 0, missing_headers |-> <<>>, done |-> FALSE]

\* The ways in which a response carries, or does not carry, each header:
\* absent, under its usual name, in lower case, with a value the function
\* accepts, rejects or finds empty.
HeaderChoices ==
    << { <<>>,
         <<Header("Content-Security-Policy", "default-src 'self'")>>,
         <<Header("content-security-policy", "default-src 'self'")>>,
         <<Header("Content-Security-Policy", "")>> },
       { <<>>,
         <<Header("Strict-Transport-Security", "max-age=31536000")>>,
         <<Header("strict-transport-security", "max-age=0")>> },
       { <<>>,
         <<Header("X-Content-Type-Options", "nosniff")>>,
         <<Header("x-content-type-options", "NoSniff")>>,
         <<Header("X-Content-Type-Options", "sniff")>> },
       { <<>>,
         <<Header("X-Frame-Options", "DENY")>>,
         <<Header("x-frame-options", "DENY")>>,
         <<Header("x-frame-options", "deny")>>,
         <<Header("X-Frame-Options", "SameOrigin")>>,
         <<Header("X-Frame-Options", "ALLOWALL")>> },
       { <<>>,
         <<Header("Referrer-Policy", "no-referrer")>>,
         <<Header("referrer-policy", "unsafe-url")>> },
       { <<>>,
         <<Header("Permissions-Policy", "camera=()")>>,
         <<Header("permissions-policy", "")>> },
       { <<>>,
         <<Header("Feature-Policy", "camera 'none'")>> },
       { <<>>,
         <<Header("X-FRAME-OPTIONS", "ALLOWALL")>>,
         <<Header("X-FRAME-OPTIONS", "DENY")>> } >>

SecInputs ==
    { c1 \o c2 \o c3 \o c4 \o c5 \o c6 \o c7 \o c8 :
        c1 \in HeaderChoices[1], c2 \in HeaderChoices[2],
        c3 \in HeaderChoices[3], c4 \in HeaderChoices[4],
        c5 \in HeaderChoices[5], c6 \in HeaderChoices[6],
        c7 \in HeaderChoices[7], c8 \in HeaderChoices[8] }

SecInit ==
    /\ sec_headers \in SecInputs
    /\ sec_out = NoSecurityHeaders
    /\ sec_pc = "call"

\* security_headers = analyze_security_headers(headers)
SecCall ==
    /\ sec_pc = "call"
    /\ sec_out' = analyze_security_headers(sec_headers)
    /\ sec_pc' = "returned"
    /\ UNCHANGED sec_headers
    /\ UNCHANGED <<crawl_vars, link_vars, page_vars, acc_vars>>

NextSec == SecCall

\* --------------------------------------------------- analyze_accessibility

\* AccessibilityIssue(wcag_guideline=..., severity=..., element=...)
AccessibilityIssue(g, sev, el) ==
    [wcag_guideline |-> g, severity |-> sev, element |-> el]

\* n times the same issue, one per element the loop of a check meets
Repeat(x, n) == [i \in 1 .. n |-> x]

\* The heading check: level > prev_level + 1 after a first heading.
RECURSIVE HeadingIssues(_, _)
HeadingIssues(levels, prev_level) ==
    IF levels = <<>> THEN <<>>
    ELSE (IF prev_level > 0 /\ Head(levels) > prev_level + 1
          THEN <<AccessibilityIssue("1.3.1", "moderate", "h")>>
          ELSE <<>>)
           \o HeadingIssues(Tail(levels), Head(levels))

\* The checks of analyze_accessibility in their order, on a page given by
\* what each check finds.
AccessibilityIssues(p) ==
    Repeat(AccessibilityIssue("1.1.1", "critical", "img"), p.images_without_alt)
      \o Repeat(AccessibilityIssue("1.3.1", "serious", "input"),
                p.inputs_without_label)
      \o Repeat(AccessibilityIssue("2.4.4", "moderate", "a"), p.vague_links)
      \o (IF p.html = "no_lang"
          THEN <<AccessibilityIssue("3.1.1", "serious", "html")>> ELSE <<>>)
      \o (IF ~p.title
          THEN <<AccessibilityIssue("2.4.2", "serious", "title")>> ELSE <<>>)
      \o HeadingIssues(p.headings, 0)
      \o (IF Len(SelectSeq(p.headings, LAMBDA l : l = 1)) > 1
          THEN <<AccessibilityIssue("1.3.1", "moderate", "h1")>> ELSE <<>>)
      \o (IF ~p.landmarks
          THEN <<AccessibilityIssue("2.4.1", "moderate", "body")>> ELSE <<>>)
      \o (IF p.small_text
          THEN <<AccessibilityIssue("1.4.3", "minor", "text")>> ELSE <<>>)

\* sum(1 for i in issues if i.severity == sev)
CountSeverity(issues, sev) ==
    Len(SelectSeq(issues, LAMBDA i : i.severity = sev))

\* Mutant of CalculateScore: the penalties without the floor.
CalculateScoreUnfloored(issues) ==
    100 - CountSeverity(issues, "critical") * 15
        - CountSeverity(issues, "serious") * 10
        - CountSeverity(issues, "moderate") * 5
        - CountSeverity(issues, "minor") * 2

\* score = 100 - (critical * 15) - (serious * 10) - (moderate * 5)
\* - (minor * 2); score = max(0, score)
CalculateScore(issues) ==
    LET score == 100 - CountSeverity(issues, "critical") * 15
                     - CountSeverity(issues, "serious") * 10
                     - CountSeverity(issues, "moderate") * 5
                     - CountSeverity(issues, "minor") * 2
    IN  IF score < 0 THEN 0 ELSE score

\* AccessibilityScore(score=score, issues=issues, critical_issues=critical,
\* serious_issues=serious)
analyze_accessibility(p) ==
    [score |-> CalculateScore(AccessibilityIssues(p)),
     issues |-> AccessibilityIssues(p),
     critical_issues |-> CountSeverity(AccessibilityIssues(p), "critical"),
     serious_issues |-> CountSeverity(AccessibilityIssues(p), "serious"),
     done |-> TRUE]

NoAccessibilityScore ==
    [score |-> 0, issues |-> <<>>, critical_issues |-> 0,
     serious_issues |-> 0, done |-> FALSE]

\* The heading levels of a page in document order.
HeadingLists == UNION { [1 .. n -> 1 .. 3] : n \in 0 .. MaxHeadings }

\* Any page: how many elements fail each counting check, whether <html>
\* is absent, without lang or with lang, whether there is a non-empty
\* <title>, a skip link or landmark, an inline font-size under 12px.
AccInputs ==
    [images_without_alt : 0 .. MaxImages,
     inputs_without_label : 0 .. MaxInputs,
     vague_links : 0 .. MaxVagueLinks,
     html : {"absent", "no_lang", "lang"},
     title : BOOLEAN,
     headings : HeadingLists,
     landmarks : BOOLEAN,
     small_text : BOOLEAN]

AccInit ==
    /\ acc_in \in AccInputs
    /\ acc_out = NoAccessibilityScore
    /\ acc_pc = "call"

\* accessibility = analyze_accessibility(soup, url)
AccCall ==
    /\ acc_pc = "call"
    /\ acc_out' = analyze_accessibility(acc_in)
    /\ acc_pc' = "returned"
    /\ UNCHANGED acc_in
    /\ UNCHANGED <<crawl_vars, link_vars, page_vars, sec_vars>>

NextAcc == AccCall

\* ---------------------------------------------------------- specifications

\* The variables of the part a specification does not run.
CrawlOff ==
    /\ base_url = NoUrl
    /\ max_pages = 0
    /\ state = "none"
    /\ retries = 0
    /\ error = "none"
    /\ countdowns = <<>>
    /\ result = NoResult
    /\ meta = NoMeta
    /\ pc = "off"
    /\ visited = {}
    /\ to_visit = <<>>
    /\ pages = <<>>
    /\ all_issues = <<>>
    /\ current_url = NoUrl
    /\ enqueued = {}

LinkOff ==
    /\ pages_data = <<>>
    /\ al_base_url = NoUrl
    /\ url_to_links = <<>>
    /\ links_keys = <<>>
    /\ url_to_incoming = <<>>
    /\ incoming_keys = <<>>
    /\ all_urls = {}
    /\ depths = <<>>
    /\ queue = <<>>
    /\ bfs_visited = {}
    /\ al_pc = "off"
    /\ stats = NoStats
    /\ prev_stats = NoStats

Next ==
    \/ StartAttempt
    \/ LaunchOk
    \/ LaunchFail
    \/ LoopHead
    \/ LoopHeadFail
    \/ CrawlStep
    \/ Finish
    \/ FinishRaise

PageOff ==
    /\ pg_url = NoUrl
    /\ pg_in = [status |-> 0, h1_count |-> 0, anchors |-> {}, fail |-> "none"]
    /\ pg_out = NoPageOut
    /\ pg_pc = "off"

SecOff ==
    /\ sec_headers = <<>>
    /\ sec_out = NoSecurityHeaders
    /\ sec_pc = "off"

AccOff ==
    /\ acc_in = [images_without_alt |-> 0, inputs_without_label |-> 0,
                 vague_links |-> 0, html |-> "lang", title |-> TRUE,
                 headings |-> <<>>, landmarks |-> TRUE, small_text |-> FALSE]
    /\ acc_out = NoAccessibilityScore
    /\ acc_pc = "off"

vars == <<crawl_vars, link_vars, page_vars, sec_vars, acc_vars>>

Init == CrawlInit /\ LinkOff /\ PageOff /\ SecOff /\ AccOff

Spec == Init /\ [][Next]_vars

InitLink == LinkInit /\ CrawlOff /\ PageOff /\ SecOff /\ AccOff

SpecLink == InitLink /\ [][NextLink]_vars

InitStats == StatsInit /\ CrawlOff /\ PageOff /\ SecOff /\ AccOff

InitPage == PageInit /\ CrawlOff /\ LinkOff /\ SecOff /\ AccOff

SpecPage == InitPage /\ [][NextPage]_vars

InitSec == SecInit /\ CrawlOff /\ LinkOff /\ PageOff /\ AccOff

InitAcc == AccInit /\ CrawlOff /\ LinkOff /\ PageOff /\ SecOff

SpecAcc == InitAcc /\ [][NextAcc]_vars

SpecSec == InitSec /\ [][NextSec]_vars

\* The crawl task on a worker that keeps running: every await of the task
\* returns or raises (page.goto has a timeout), so a step that is possible
\* is eventually taken.
SpecLive == Init /\ [][Next]_vars /\ WF_vars(Next)

SpecStats == InitStats /\ [][NextStats]_vars

\* ------------------------------------------------------------------ claims

PageUrls == [i \in 1 .. Len(pages) |-> pages[i].url]

NoDup(q) == \A i, j \in 1 .. Len(q) : i # j => q[i] # q[j]

\* The worker is inside the traversal loop or has just left it.
InLoop == pc \in {"loop", "fetch", "analyze"}

\* C1: whenever max_pages >= 0, at most max_pages URLs are visited, and no
\* URL is visited twice: the pages recorded so far are pages of pairwise
\* distinct visited URLs.
C1_VisitedWithinBudget ==
    max_pages >= 0 =>
        /\ Cardinality(visited) <= max_pages
        /\ Len(pages) <= max_pages
        /\ NoDup(PageUrls)
        /\ Range(PageUrls) \subseteq visited

\* The budget is used up on a site whose pages link back to the root.
C1_Witness ==
    /\ pc = "analyze"
    /\ max_pages = 3
    /\ Cardinality(visited) = 3
    /\ \E i \in 2 .. Len(pages) : base_url \in pages[i].internal_links

\* Two URLs that differ at most by their fragment.
SameModFragment(u, v) == urldefrag(u) = urldefrag(v)

\* C2: the frontier holds no URL twice and no URL that is already visited,
\* where URLs that differ only by their fragment count as the same URL; so
\* no URL is ever pushed a second time.
C2_FrontierDedup ==
    /\ \A i, j \in 1 .. Len(to_visit) :
         i # j => ~SameModFragment(to_visit[i], to_visit[j])
    /\ \A i \in 1 .. Len(to_visit) :
         \A v \in visited : ~SameModFragment(to_visit[i], v)

\* C2, read on the URL strings as the code compares them: no frontier entry
\* equals another frontier entry or a visited URL.
C2_FrontierDedupByString ==
    /\ NoDup(to_visit)
    /\ \A i \in 1 .. Len(to_visit) : to_visit[i] \notin visited

\* max(0, max_pages): the number of pages a budget allows.
Allowed(m) == IF m >= 0 THEN m ELSE 0

\* C3 as stated: when the loop has ended, a URL is left in the frontier
\* only if |visited| = max_pages; every visited URL was enqueued.
C3_LeftOnlyAtBudget ==
    /\ visited \subseteq enqueued
    /\ (pc = "analyze" /\ to_visit # <<>>) => Cardinality(visited) = max_pages

\* C3 as amended: every enqueued URL is visited or still waits in the
\* frontier, every visited URL was enqueued, and when the loop has ended a
\* URL is left in the frontier only if the budget is exhausted, that is
\* |visited| = max(0, max_pages).
C3_LeftOnlyWhenExhausted ==
    /\ visited \subseteq enqueued
    /\ enqueued \ visited \subseteq Range(to_visit)
    /\ (pc = "analyze" /\ to_visit # <<>>) =>
           Cardinality(visited) = Allowed(max_pages)

\* The loop has ended on a used-up budget with URLs still in the frontier.
C3_Witness ==
    /\ pc = "analyze"
    /\ to_visit # <<>>
    /\ max_pages = 2
    /\ Cardinality(visited) = 2
    /\ Cardinality(enqueued) > 2

\* The traversal order so far: the pages recorded, the URL being fetched,
\* the frontier.
TraversalOrder ==
    PageUrls \o (IF pc = "fetch" THEN <<current_url>> ELSE <<>>) \o to_visit

\* The index of the first recorded page that links to u (0 if none does).
FirstDiscovery(u) ==
    IF \E i \in 1 .. Len(pages) : u \in pages[i].internal_links
    THEN CHOOSE i \in 1 .. Len(pages) :
            /\ u \in pages[i].internal_links
            /\ \A j \in 1 .. i - 1 : u \notin pages[j].internal_links
    ELSE 0

\* The site of the scenario: / -> /a -> /b -> /.
ScenarioLinks(u) ==
    IF u.path = "/" THEN {Url("https", Host, "/a", "")}
    ELSE IF u.path = "/a" THEN {Url("https", Host, "/b", "")}
    ELSE {PlainRoot}

\* The attempt runs the scenario: root /, max_pages 3, and every page
\* recorded so far was fetched with the scenario's links.
ScenarioRun ==
    /\ base_url = PlainRoot
    /\ max_pages = 3
    /\ \A i \in 1 .. Len(pages) :
         /\ pages[i].readability
         /\ pages[i].internal_links = ScenarioLinks(pages[i].url)

\* C4: the traversal is first-in first-out in discovery order: the root
\* comes first, and a URL first linked from an earlier-visited page is
\* visited (or queued) before every URL first linked from a later-visited
\* page.  In the scenario / -> /a -> /b -> / with max_pages 3 the loop ends
\* with the visit sequence /, /a, /b and the attempt returns its result.
C4_BreadthFirstOrder ==
    /\ InLoop =>
         /\ TraversalOrder # <<>> => TraversalOrder[1] = base_url
         /\ \A i, j \in 2 .. Len(TraversalOrder) :
              FirstDiscovery(TraversalOrder[i]) < FirstDiscovery(TraversalOrder[j])
                => i < j
         /\ \A i \in 2 .. Len(TraversalOrder) :
              FirstDiscovery(TraversalOrder[i]) >= 1
    /\ (ScenarioRun /\ pc = "analyze") =>
         /\ PageUrls = <<PlainRoot, Url("https", Host, "/a", ""),
                         Url("https", Host, "/b", "")>>
         /\ ~AvgScoreRaises(pages)
    /\ (ScenarioRun /\ state = "SUCCESS") =>
         /\ result.status = "completed"
         /\ result.pages_crawled = 3

\* The scenario has run to its result.
C4_Witness ==
    /\ ScenarioRun
    /\ state = "SUCCESS"
    /\ PageUrls = <<PlainRoot, Url("https", Host, "/a", ""),
                    Url("https", Host, "/b", "")>>

\* The exceptions that are job-level failures: the browser cannot be
\* launched, the result backend cannot be written, the sitemap cannot be
\* read.
JobLevelErrors == {"LaunchError", "BackendError", "ValidationError"}

\* C5: a per-page failure never becomes a job failure: whenever the task
\* is retried or has failed, the cause is a job-level error, never the
\* outcome of page fetches; an attempt whose loop has ended returns its
\* result.
C5_PageFailureNeverFailsJob ==
    /\ state \in {"RETRY", "FAILURE"} => error \in JobLevelErrors
    /\ pc = "analyze" => ~AvgScoreRaises(pages)

\* The issues of the job that carry URL u, in order.
IssuesOf(u) == SelectSeq(all_issues, LAMBDA x : x.url = u)

\* C6: every recorded page whose fetch or parse failed (status 0) has
\* exactly one issue for its URL, of type crawl_error and severity error.
C6_FailedPageHasOneIssue ==
    \A i \in 1 .. Len(pages) :
        pages[i].status_code = 0 =>
            IssuesOf(pages[i].url)
                = <<PageIssue(pages[i].url, "crawl_error", "error")>>

\* C7: at most 1 + 3 attempts run: at most 3 retries are scheduled, each
\* with a countdown of 60 seconds; the task fails only once all 3 retries
\* are used up, it then holds the exception of the last attempt and no
\* result, and a task that holds a result has not failed.
C7_BoundedRetries ==
    /\ retries <= 3
    /\ Len(countdowns) = retries
    /\ \A i \in 1 .. Len(countdowns) : countdowns[i] = 60
    /\ state = "RETRY" => error # "none" /\ pc = "queued"
    /\ state = "FAILURE" =>
         /\ retries = 3
         /\ error # "none"
         /\ result = NoResult
         /\ pc = "done"
    /\ result # NoResult => state = "SUCCESS"

\* Every attempt has raised and the task has failed after the third retry.
C7_Witness ==
    /\ state = "FAILURE"
    /\ retries = 3
    /\ countdowns = <<60, 60, 60>>
    /\ error = "LaunchError"

Crawled == {pages_data[i].url : i \in 1 .. Len(pages_data)}

Targets(S) ==
    UNION {Range(pages_data[i].internal_links) :
             i \in {j \in 1 .. Len(pages_data) : pages_data[j].url \in S}}

GraphUrls == Crawled \cup Targets(Crawled)

\* The URLs at most k edges away from the root.
RECURSIVE Within(_)
Within(k) ==
    IF k = 0 THEN {al_base_url} ELSE Within(k - 1) \cup Targets(Within(k - 1))

\* The length of a shortest path from the root to u, -1 if there is none
\* (a shortest path visits no URL twice).
Distance(u) ==
    IF u \notin Within(Cardinality(GraphUrls))
    THEN -1
    ELSE CHOOSE k \in 0 .. Cardinality(GraphUrls) :
            /\ u \in Within(k)
            /\ \A j \in 0 .. k - 1 : u \notin Within(j)

\* C9: when calculate_click_depths returns, the root has depth 0, every URL
\* of the graph has the length of a shortest path from the root, or -1 if
\* the root does not reach it, and along every edge u -> v from a reached
\* page u, 0 <= depth(v) <= depth(u) + 1.
C9_ClickDepthIsDistance ==
    al_pc = "done" =>
        /\ DOMAIN depths = GraphUrls \cup {al_base_url}
        /\ depths[al_base_url] = 0
        /\ \A u \in GraphUrls : depths[u] = Distance(u)
        /\ \A u \in Crawled : \A v \in Targets({u}) :
             depths[u] >= 0 => (0 <= depths[v] /\ depths[v] <= depths[u] + 1)

\* The analysis has returned for a graph with a URL two clicks away, a URL
\* that the root does not reach, and an edge that is no tree edge.
C9_Witness ==
    /\ al_pc = "done"
    /\ \E u \in GraphUrls : depths[u] = 2
    /\ \E u \in GraphUrls : depths[u] = -1
    /\ \E u \in Crawled : \E v \in Targets({u}) :
         depths[u] >= 1 /\ depths[v] >= 0 /\ depths[v] <= depths[u]

\* The records of the scenario / -> /a -> /b -> /.
ScenarioRecords ==
    <<PageRecord(LinkNodes[1], <<LinkNodes[2]>>),
      PageRecord(LinkNodes[2], <<LinkNodes[3]>>),
      PageRecord(LinkNodes[3], <<LinkNodes[1]>>)>>

\* C10: orphan_pages is exactly the set of crawled URLs, other than the
\* root, that no record links to; no URL that was never crawled is in it;
\* in the scenario / -> /a -> /b -> / it is empty.
C10_OrphansAreUnlinkedCrawled ==
    stats.done =>
        /\ stats.orphan_pages =
             { u \in Crawled : u # al_base_url /\ u \notin Targets(Crawled) }
        /\ stats.orphan_pages \subseteq Crawled
        /\ pages_data = ScenarioRecords => stats.orphan_pages = {}

\* The analysis has returned with an orphan, with a link target that was
\* never crawled, and with a root that no record links to.
C10_Witness ==
    /\ stats.done
    /\ stats.orphan_pages # {}
    /\ GraphUrls \ Crawled # {}
    /\ al_base_url \in Crawled \ Targets(Crawled)

\* The analysis of the scenario has returned.
C10_ScenarioWitness ==
    /\ stats.done
    /\ pages_data = ScenarioRecords

\* The crawled URLs that link to fewer than 3 URLs, each with the number of
\* URLs it links to.
UnderLinked ==
    { [url |-> u, link_count |-> Cardinality(Targets({u}))] :
        u \in { v \in Crawled : Cardinality(Targets({v})) < 3 } }

\* C11: when the analysis returns, pages_with_few_links lists exactly the
\* crawled URLs with fewer than 3 outgoing internal links, each once and
\* with its link count, and no URL with 3 or more, however many pages were
\* crawled.
C11_UnderLinkedComplete ==
    stats.done =>
        /\ Range(stats.pages_with_few_links) = UnderLinked
        /\ NoDup(stats.pages_with_few_links)

\* The URLs of the analysed sites in the order of their strings.
UrlOrder == LinkNodes \o [i \in 1 .. MaxWide + 1 |-> WideNode(i)]

UrlRank(u) == CHOOSE i \in 1 .. Len(UrlOrder) : UrlOrder[i] = u

\* C12: when the analysis returns, every entry of most_linked_pages carries
\* the number of crawled pages that link to its URL, and the entries are
\* ordered by that number, descending, entries with equal numbers by URL.
C12_RankingByCountThenUrl ==
    stats.done =>
        \A i, j \in 1 .. Len(stats.most_linked_pages) :
            LET a == stats.most_linked_pages[i]
                b == stats.most_linked_pages[j]
            IN /\ a.incoming_links =
                    Cardinality({u \in Crawled : a.url \in Targets({u})})
               /\ i < j =>
                    \/ a.incoming_links > b.incoming_links
                    \/ /\ a.incoming_links = b.incoming_links
                       /\ UrlRank(a.url) < UrlRank(b.url)

\* C13: a call of analyze_internal_linking leaves the page records and the
\* root URL as they were, and a second call on the same records returns
\* the metrics the first call returned.
C13_SameInputSameStats ==
    [][ /\ pages_data' = pages_data
        /\ al_base_url' = al_base_url
        /\ (stats'.done /\ prev_stats'.done) => stats' = prev_stats'
      ]_vars

\* The issues of one type among the issues that a call returned.
OfType(issues, t) == SelectSeq(issues, LAMBDA x : x.issue_type = t)

\* C14: a call of crawl_page that fetched and analysed its page returns,
\* for a page without <h1>, exactly one missing_h1 issue, of severity error,
\* and no multiple_h1 issue; for a page with two or more <h1>, exactly one
\* multiple_h1 issue, of severity warning, and no missing_h1 issue; for a
\* page with one <h1>, neither.
C14_H1IssuesExclusive ==
    (pg_pc = "returned" /\ pg_in.fail = "none") =>
        /\ pg_out.page.h1_count = pg_in.h1_count
        /\ pg_in.h1_count = 0 =>
              /\ OfType(pg_out.issues, "missing_h1")
                    = <<PageIssue(pg_url, "missing_h1", "error")>>
              /\ OfType(pg_out.issues, "multiple_h1") = <<>>
        /\ pg_in.h1_count >= 2 =>
              /\ OfType(pg_out.issues, "multiple_h1")
                    = <<PageIssue(pg_url, "multiple_h1", "warning")>>
              /\ OfType(pg_out.issues, "missing_h1") = <<>>
        /\ pg_in.h1_count = 1 =>
              /\ OfType(pg_out.issues, "missing_h1") = <<>>
              /\ OfType(pg_out.issues, "multiple_h1") = <<>>

\* A page with three <h1> that answers 404 has been analysed.
C14_Witness ==
    /\ pg_pc = "returned"
    /\ pg_in.fail = "none"
    /\ pg_in.h1_count = 3
    /\ pg_in.status = 404
    /\ Len(pg_out.issues) = 2

\* The weights as the claim lists them.
ClaimedWeight ==
    [h \in Range(SecurityHeaderNames) |->
        IF h \in {"X-Content-Type-Options", "Permissions-Policy"} THEN 15
        ELSE IF h = "Referrer-Policy" THEN 10 ELSE 20]

RECURSIVE SumOver(_, _)
SumOver(f, S) ==
    IF S = {} THEN 0
    ELSE LET x == CHOOSE y \in S : TRUE IN f[x] + SumOver(f, S \ {x})

\* The spellings under which the headers of a call carry a header name.
Spellings(h) ==
    CASE h = "Content-Security-Policy" -> {h, "content-security-policy"}
      [] h = "Strict-Transport-Security" -> {h, "strict-transport-security"}
      [] h = "X-Content-Type-Options" -> {h, "x-content-type-options"}
      [] h = "X-Frame-Options" -> {h, "x-frame-options", "X-FRAME-OPTIONS"}
      [] h = "Referrer-Policy" -> {h, "referrer-policy"}
      [] h = "Permissions-Policy" ->
             {h, "permissions-policy", "Feature-Policy"}

\* The entries of the headers that carry header h, under any spelling.
EntriesOf(h) == SelectSeq(sec_headers, LAMBDA e : e.name \in Spellings(h))

\* C15: analyze_security_headers returns as score the sum of the weights
\* (CSP 20, HSTS 20, X-Content-Type-Options 15, X-Frame-Options 20,
\* Referrer-Policy 10, Permissions-Policy 15) of the headers that are not in
\* missing_headers; a header that no entry carries under any spelling is
\* missing, a header that one entry carries, under any spelling and with an
\* accepted value, is not; the score is in 0..100, is 100 iff nothing is
\* missing and 0 iff all six are; for x-frame-options: DENY alone it is
\* strictly between 0 and 100 and the other five are missing.
C15_SecurityScore ==
    sec_pc = "returned" =>
        LET missing == Range(sec_out.missing_headers)
            names == Range(SecurityHeaderNames)
        IN /\ missing \subseteq names
           /\ NoDup(sec_out.missing_headers)
           /\ sec_out.score = SumOver(ClaimedWeight, names \ missing)
           /\ sec_out.score \in 0 .. 100
           /\ sec_out.score = 100 <=> missing = {}
           /\ sec_out.score = 0 <=> missing = names
           /\ \A h \in names :
                /\ EntriesOf(h) = <<>> => h \in missing
                /\ ( /\ Len(EntriesOf(h)) = 1
                     /\ EntriesOf(h)[1].value \in
                          {"default-src 'self'", "max-age=31536000",
                           "max-age=0", "nosniff", "NoSniff", "DENY", "deny",
                           "SameOrigin", "no-referrer", "unsafe-url",
                           "camera=()", "camera 'none'"} )
                     => h \notin missing
           /\ sec_headers = <<Header("x-frame-options", "DENY")>> =>
                /\ 0 < sec_out.score /\ sec_out.score < 100
                /\ missing = names \ {"X-Frame-Options"}

\* The call has returned for the headers x-frame-options: DENY alone.
C15_Witness ==
    /\ sec_pc = "returned"
    /\ sec_headers = <<Header("x-frame-options", "DENY")>>
    /\ sec_out.score = 20
    /\ Len(sec_out.missing_headers) = 5

\* C16: every URL that is enqueued or visited, the root aside, has the
\* network authority of the root; a link with another authority or with
\* none (mailto:, tel:, javascript:) is never enqueued.
C16_OnlySameAuthority ==
    \A u \in (enqueued \cup visited \cup Range(to_visit)) \ {base_url} :
        u.netloc = base_url.netloc

\* C17: when an analyzer raises on a fetched page, crawl_page still returns
\* the page with its HTTP status and its internal links, with the links to
\* follow, and with an analyzer_error issue instead of a crawl_error issue.
C17_AnalyzerFailureIsolated ==
    (pg_pc = "returned" /\ pg_in.fail = "analysis") =>
        /\ pg_out.page.status_code = pg_in.status
        /\ pg_out.page.internal_links = InternalLinks(pg_url, Host, pg_in.anchors)
        /\ pg_out.links = InternalLinks(pg_url, Host, pg_in.anchors)
        /\ OfType(pg_out.issues, "analyzer_error") # <<>>
        /\ OfType(pg_out.issues, "crawl_error") = <<>>

\* C18: every attempt starts from scratch: when a worker takes the task,
\* for the first time or after a retry, visited is empty, the frontier is
\* exactly the root URL and the page and issue accumulators are empty; the
\* result of an attempt holds the pages and issues of that attempt only.
C18_RetryFromScratch ==
    [][ /\ (pc = "queued" /\ pc' # "queued") =>
              /\ visited' = {}
              /\ to_visit' = <<base_url>>
              /\ pages' = <<>>
              /\ all_issues' = <<>>
        /\ (state' = "SUCCESS" /\ state # "SUCCESS") =>
              /\ result'.pages = pages
              /\ result'.issues = all_issues
              /\ result'.pages_crawled = Cardinality(visited)
              /\ Range(PageUrls) = visited
      ]_vars

\* A third attempt has started after two attempts that visited pages.
C18_Witness ==
    /\ retries = 2
    /\ pc = "launch"
    /\ visited = {}
    /\ to_visit = <<base_url>>
    /\ pages = <<>>

\* C19: one progress event is emitted for every URL that is marked visited
\* and fetched, and none otherwise: the event carries the URL, max_pages
\* and the number of URLs visited so far, which is 1 for the first event of
\* an attempt, one more than in the event before for every other, and never
\* more than max_pages; the number of events so far is the number of pages
\* recorded, plus one while a page is being fetched.
C19_OneProgressEventPerPage ==
    [][ /\ (pc' = "fetch" /\ pc # "fetch") => meta' # meta
        /\ (meta' # meta /\ meta' # NoMeta) =>
              /\ meta'.current_url \notin visited
              /\ visited' = visited \cup {meta'.current_url}
              /\ current_url' = meta'.current_url
              /\ pc' = "fetch"
              /\ meta'.current = Cardinality(visited')
              /\ meta'.current = (IF meta = NoMeta THEN 1 ELSE meta.current + 1)
              /\ meta'.total = max_pages
              /\ meta'.current <= max_pages
        /\ (meta' = NoMeta /\ meta # NoMeta) => (pc = "queued" /\ pc' = "launch")
        /\ (pc' \in {"loop", "fetch", "analyze"}) =>
              meta'.current = Len(pages') + (IF pc' = "fetch" THEN 1 ELSE 0)
      ]_vars

\* The third progress event of an attempt has been emitted.
C19_Witness ==
    /\ pc = "fetch"
    /\ meta.current = 3
    /\ meta.total = 3
    /\ meta.current_url = current_url
    /\ Len(pages) = 2

\* C20: the sitemap and the robots.txt that were fetched never change what
\* a run visits and produces: once the loop has ended, the attempt's outcome
\* is fixed by the traversal alone, so two runs with the same traversal that
\* differ in the sitemap or the robots.txt both complete with the same pages
\* and issues (or both fail on the pages themselves).
C20_SitemapNeverChangesOutcome ==
    [][ (pc = "analyze" /\ pc' # "analyze" /\ ~AvgScoreRaises(pages)) =>
            /\ state' = "SUCCESS"
            /\ result'.pages = pages
            /\ result'.issues = all_issues
      ]_vars

\* C21: every job that has terminated has produced one CrawlResult: with
\* status completed when the task succeeded, and with status failed and the
\* causing error in error_message when the task failed after its retries.
C21_OneResultPerTerminatedJob ==
    pc = "done" =>
        \/ /\ state = "SUCCESS"
           /\ result.status = "completed"
        \/ /\ state = "FAILURE"
           /\ result.status = "failed"
           /\ result.error_message = error

\* The deduction of one issue by its severity.
ClaimedPenalty ==
    [critical |-> 15, serious |-> 10, moderate |-> 5, minor |-> 2]

\* The deductions of all issues of a list.
RECURSIVE Deduction(_)
Deduction(issues) ==
    IF issues = <<>> THEN 0
    ELSE ClaimedPenalty[Head(issues).severity] + Deduction(Tail(issues))

Severities == {"critical", "serious", "moderate", "minor"}

\* C22: the accessibility score is 100 minus 15, 10, 5 and 2 for every
\* critical, serious, moderate and minor issue reported, floored at 0; it
\* lies in 0..100, one more issue of any severity never raises it, and
\* critical_issues and serious_issues count the reported issues of those
\* severities.
C22_AccessibilityScore ==
    acc_out.done =>
        /\ acc_out.score =
             (IF Deduction(acc_out.issues) > 100 THEN 0
              ELSE 100 - Deduction(acc_out.issues))
        /\ acc_out.score \in 0 .. 100
        /\ \A sev \in Severities :
             CalculateScore(Append(acc_out.issues,
                                   AccessibilityIssue("0", sev, "x")))
               <= acc_out.score
        /\ acc_out.critical_issues =
             Cardinality({i \in 1 .. Len(acc_out.issues) :
                            acc_out.issues[i].severity = "critical"})
        /\ acc_out.serious_issues =
             Cardinality({i \in 1 .. Len(acc_out.issues) :
                            acc_out.issues[i].severity = "serious"})

\* Seven images without alt text on a page with no other issue: the
\* deduction is 105 and the score is floored.
C22_Witness ==
    /\ acc_out.done
    /\ acc_out.critical_issues = 7
    /\ Len(acc_out.issues) = 7
    /\ acc_out.score = 0

\* The internal-link edges of the records analysed.
RECURSIVE Edges(_)
Edges(pd) ==
    IF pd = <<>> THEN 0
    ELSE Len(Head(pd).internal_links) + Edges(Tail(pd))

\* | a - b |
AbsDiff(a, b) == IF a >= b THEN a - b ELSE b - a

C24_PoppedUrlIsNew ==
    [][ /\ InLoop => /\ Range(to_visit) \cap visited = {}
                     /\ NoDup(to_visit)
        /\ (pc = "loop" /\ LoopGuard(to_visit, visited, max_pages)) =>
              /\ Head(to_visit) \notin visited
              /\ visited' = visited \cup {Head(to_visit)}
              /\ Cardinality(visited') = Cardinality(visited) + 1
              /\ current_url' = Head(to_visit)
      ]_vars

\* The third URL is popped after the first two pages both linked to it and
\* the second page linked back to the root.
C24_Witness ==
    /\ pc = "fetch"
    /\ Len(pages) = 2
    /\ base_url \in pages[2].internal_links
    /\ current_url \in pages[1].internal_links \cap pages[2].internal_links
    /\ current_url \notin Range(PageUrls)

\* C25 as stated: after every pass of the loop there is one page record per
\* visited URL and none for another URL, the records' URLs are pairwise
\* distinct, each record is appended for the URL visited last, and the
\* result's pages_crawled is |visited| and at most max_pages.
C25_OneRecordPerVisitedUrl ==
    [][ /\ pc' = "loop" =>
              /\ Len(pages') = Cardinality(visited')
              /\ NoDup(PageUrls')
              /\ Range(PageUrls') = visited'
        /\ (pc = "fetch" /\ pc' = "loop") =>
              /\ visited \ Range(PageUrls) = {current_url}
              /\ SubSeq(pages', 1, Len(pages)) = pages
              /\ Len(pages') = Len(pages) + 1
              /\ pages'[Len(pages')].url = current_url
        /\ (state' = "SUCCESS" /\ state # "SUCCESS") =>
              /\ result'.pages_crawled = Cardinality(visited')
              /\ result'.pages_crawled <= max_pages
      ]_vars

\* C25 as amended: the same, with pages_crawled at most max(0, max_pages).
C25_OneRecordPerVisitedUrlAllowed ==
    [][ /\ pc' = "loop" =>
              /\ Len(pages') = Cardinality(visited')
              /\ NoDup(PageUrls')
              /\ Range(PageUrls') = visited'
        /\ (pc = "fetch" /\ pc' = "loop") =>
              /\ visited \ Range(PageUrls) = {current_url}
              /\ SubSeq(pages', 1, Len(pages)) = pages
              /\ Len(pages') = Len(pages) + 1
              /\ pages'[Len(pages')].url = current_url
        /\ (state' = "SUCCESS" /\ state # "SUCCESS") =>
              /\ result'.pages_crawled = Cardinality(visited')
              /\ result'.pages_crawled <= Allowed(max_pages)
      ]_vars

\* A job has completed with three pages, the second one a failed fetch.
C25_Witness ==
    /\ state = "SUCCESS"
    /\ result.pages_crawled = 3
    /\ Cardinality(visited) = 3
    /\ result.pages[2].status_code = 0
    /\ result.pages[3].status_code # 0

\* The issue types that the fields of a page record imply.
ImpliedIssueTypes(p) ==
    (IF p.status_code = 0 THEN {"crawl_error"} ELSE {})
      \cup (IF p.status_code >= 400 THEN {"http_error"} ELSE {})
      \cup (IF p.h1_count > 1 THEN {"multiple_h1"} ELSE {})

\* C26: the page steps of a job are sequential: when the fetch of the next
\* page starts, every URL visited before has its page record, the issues of
\* every record are in the issue list, every link of every record is
\* visited or waits in the frontier, and the progress count is the number
\* of records plus the one page now started.
C26_PageStepsSequential ==
    [][ (pc' = "fetch" /\ pc # "fetch") =>
            /\ pc = "loop"
            /\ Range(PageUrls) = visited
            /\ Len(pages) = Cardinality(visited)
            /\ \A i \in 1 .. Len(pages) :
                 /\ pages[i].internal_links
                      \subseteq visited \cup Range(to_visit)
                 /\ \A t \in ImpliedIssueTypes(pages[i]) :
                      \E k \in 1 .. Len(all_issues) :
                         /\ all_issues[k].url = pages[i].url
                         /\ all_issues[k].issue_type = t
            /\ visited' = visited \cup {current_url'}
            /\ to_visit' = Tail(to_visit)
            /\ meta'.current = Len(pages) + 1
      ]_vars

\* The fetch of the second page has started, the first page having two
\* links: one is the URL now fetched, the other waits in the frontier.
C26_Witness ==
    /\ pc = "fetch"
    /\ Len(pages) = 1
    /\ Cardinality(pages[1].internal_links) = 2
    /\ current_url \in pages[1].internal_links
    /\ to_visit # <<>>
    /\ Range(to_visit) \subseteq pages[1].internal_links

\* C27: a page that answers with a status >= 400 is an issue and no
\* failure: the call returns exactly one http_error issue, of severity
\* error, and no crawl_error; the record keeps the status answered and
\* carries the reports of the analyzers.
C27_HttpErrorIsAnIssue ==
    (pg_pc = "returned" /\ pg_in.fail # "goto" /\ pg_in.status >= 400) =>
        /\ Len(OfType(pg_out.issues, "http_error")) = 1
        /\ OfType(pg_out.issues, "http_error")[1].severity = "error"
        /\ OfType(pg_out.issues, "crawl_error") = <<>>
        /\ pg_out.page.status_code = pg_in.status
        /\ pg_out.page.readability

\* The specified push: a link that is not in the enqueued set is appended
\* to the frontier and added to the set.
RECURSIVE EnqueueBySet(_, _, _)
EnqueueBySet(q, enq, new_links) ==
    IF new_links = <<>> THEN [frontier |-> q, enqueued |-> enq]
    ELSE IF Head(new_links) \notin enq
         THEN EnqueueBySet(Append(q, Head(new_links)),
                           enq \cup {Head(new_links)}, Tail(new_links))
         ELSE EnqueueBySet(q, enq, Tail(new_links))

\* C28: the push-time test of the code is the test on an explicit enqueued
\* set: visited united with the URLs of the frontier is the set of the URLs
\* ever enqueued, and for every page the fetch in progress may return, with
\* its links in any order, the code's push and the push by the enqueued set
\* leave the same frontier and the same set.
C28_PushCheckIsEnqueuedSet ==
    /\ visited \cup Range(to_visit) = enqueued
    /\ pc = "fetch" =>
         \A in \in PageInputs(current_url) :
            \A new_links \in
                 Orders(crawl_page(current_url, base_url.netloc, in).links) :
               /\ Enqueue(to_visit, visited, new_links)
                    = EnqueueBySet(to_visit, enqueued, new_links).frontier
               /\ visited \cup Range(Enqueue(to_visit, visited, new_links))
                    = EnqueueBySet(to_visit, enqueued, new_links).enqueued

\* The second page linked to the root, already visited, and to a URL that
\* the first page had put on the frontier: neither was pushed again.
C28_Witness ==
    /\ pc = "loop"
    /\ Len(pages) = 2
    /\ base_url \in pages[2].internal_links
    /\ Len(to_visit) = 1
    /\ to_visit[1] \in pages[1].internal_links \cap pages[2].internal_links
    /\ enqueued = visited \cup {to_visit[1]}

\* C29: the traversal loop terminates: every pass of its body marks one
\* more URL visited and never more than max(0, max_pages), so there are at
\* most max(0, max_pages) passes; a worker inside the loop eventually leaves
\* it; with max_pages <= 0 nothing is visited, no page is recorded, the
\* summary after the loop divides by nothing, and the result of the job has
\* status completed and zero pages.
C29_LoopTerminates ==
    /\ [][ (pc = "loop" /\ pc' \in {"loop", "fetch"}) =>
              /\ Cardinality(visited') = Cardinality(visited) + 1
              /\ Cardinality(visited') <= Allowed(max_pages)
         ]_vars
    /\ [](pc \in {"loop", "fetch"} => <>(pc \notin {"loop", "fetch"}))
    /\ [](max_pages <= 0 =>
            /\ visited = {}
            /\ pages = <<>>
            /\ pc # "fetch"
            /\ pc = "analyze" => ~AvgScoreRaises(pages)
            /\ state = "SUCCESS" =>
                 result.status = "completed" /\ result.pages_crawled = 0)

\* A job with max_pages = 0 has completed with no page, its root still in
\* the frontier.
C29_Witness ==
    /\ max_pages = 0
    /\ state = "SUCCESS"
    /\ result.pages_crawled = 0
    /\ result.pages = <<>>
    /\ to_visit = <<base_url>>

\* The place of the page of URL u in a list of page records.
PageIndex(ps, u) == CHOOSE i \in 1 .. Len(ps) : ps[i].url = u

\* C30: the issue list of an attempt is append-only and page-aligned: a
\* step of the attempt leaves the issues it finds in place and in order,
\* every issue carries the URL of a visited URL with a page record, and the
\* issues of an earlier page all precede those of a later page.
C30_IssuesAppendOnlyPageAligned ==
    [][ /\ pc # "queued" =>
              /\ Len(all_issues') >= Len(all_issues)
              /\ SubSeq(all_issues', 1, Len(all_issues)) = all_issues
        /\ \A k \in 1 .. Len(all_issues') :
              /\ all_issues'[k].url \in visited'
              /\ all_issues'[k].url \in Range(PageUrls')
        /\ \A j, k \in 1 .. Len(all_issues') :
              j < k => PageIndex(pages', all_issues'[j].url)
                         <= PageIndex(pages', all_issues'[k].url)
      ]_vars

\* Three pages are recorded: the second one brought two issues, the third
\* one a third issue.
C30_Witness ==
    /\ pc = "loop"
    /\ Len(pages) = 3
    /\ Len(all_issues) = 3
    /\ all_issues[1].url = pages[2].url
    /\ all_issues[2].url = pages[2].url
    /\ all_issues[3].url = pages[3].url

====
